---- MODULE Spec2Model ----
(***************************************************************************)
(* rbd-mirror Replayer (src/tools/rbd_mirror/Replayer.cc): the per-peer    *)
(* supervisor that reconciles the pool watcher's target set against the    *)
(* image replayers it owns.                                                *)
(*                                                                         *)
(* Every handler runs under m_lock and is one atomic action here.  The     *)
(* control loop thread (Replayer::run) and the destructor are split at the *)
(* points where they do not hold m_lock.                                   *)
(***************************************************************************)
EXTENDS Integers, FiniteSets, Sequences, TLC

\* ------------------------------------------------------------------ bounds
\* continuations that may be pending in the ImageDeleter at a time
MaxPending == 2
\* target changes the pool watcher publishes
MaxRefresh == 1

\* ---------------------------------------------------------------- universe
\* remote pool ids: the keys of PoolImageIds, m_images and m_status_watchers
Pools == {1, 2}

EmptyMap == << >>

\* boost::optional<std::string>
Some(n) == [has |-> TRUE, val |-> n]

None == [has |-> FALSE, val |-> ""]

\* ImageIds the remote may advertise in each pool (compared by id alone)
RemoteImages(p) ==
  IF p = 1
    THEN {[id |-> 1, global_id |-> "a", name |-> Some("na")],
          [id |-> 2, global_id |-> "b", name |-> Some("nb")]}
    ELSE {[id |-> 1, global_id |-> "c", name |-> None]}

\* the values PoolWatcher::get_images() returns in this model
Targets ==
  LET A == [id |-> 1, global_id |-> "a", name |-> Some("na")]
      B == [id |-> 2, global_id |-> "b", name |-> Some("nb")]
  IN {EmptyMap,
      [p \in {1} |-> {A}],
      [p \in {1} |-> {B}],
      [p \in {1} |-> {A, B}],
      [p \in {2} |-> {}]}

\* the local cluster as pool_list2 returns it (in list order), with the
\* mirrored images of each pool as mirror_image_list / dir_get_name give them
LocalPools ==
  << [id |-> 1, name |-> "x",
      mirror_images |-> {[image_id |-> 1, global_id |-> "a", name |-> "la"],
                         [image_id |-> 3, global_id |-> "z", name |-> "lz"]}],
     [id |-> 2, name |-> "y",
      mirror_images |-> {[image_id |-> 1, global_id |-> "c", name |-> "lc"]}] >>

\* ----------------------------------------------------------------- state
VARIABLES
  m_stopping,         \* atomic_t m_stopping
  m_manual_stop,      \* bool m_manual_stop
  m_images,           \* pool id -> (image id -> image replayer)
  m_status_watchers,  \* pool ids that have a MirrorStatusWatchCtx
  m_init_images,      \* pool key -> set of InitImageInfo
  m_image_deleter,    \* TRUE while the shared_ptr is held
  m_asok_hook,        \* TRUE while the admin socket hook is registered
  pool_images,        \* what m_pool_watcher->get_images() returns now
  pc,                 \* position of the replayer thread (Replayer::run)
  dpc,                \* position of the owner: construct, init, ~Replayer
  dangling,           \* deletion-wait continuations whose replayer was erased
  aborted,            \* the process died (failed assert or crash)
  last,               \* the handler that ran last and the calls it made
  budget              \* what is left of MaxRefresh

vars == << m_stopping, m_manual_stop, m_images, m_status_watchers,
           m_init_images, m_image_deleter, m_asok_hook, pool_images,
           pc, dpc, dangling, aborted, last, budget >>

\* ------------------------------------------------- ImageReplayer (collaborator)
\* States {Stopped, Starting, Running, Stopping}.  on_stop is what runs when a
\* stop completes: "hook" is the context stop_image_replayer passes, "none" a
\* stop without context.  waits counts the
\* deletion-wait continuations that hold a reference to this replayer; gated
\* says that one of the continuations still pending has a sibling that called
\* start() already.
ImageReplayer_new ==
  [state |-> "Stopped", on_stop |-> "none", waits |-> 0, gated |-> FALSE]

is_stopped(w) == w.state = "Stopped"

is_running(w) == w.state = "Running"

ImageReplayer_start(w) ==
  IF is_stopped(w) THEN [w EXCEPT !.state = "Starting"] ELSE w

ImageReplayer_stop(w, on_finish) ==
  IF is_running(w)
    THEN [w EXCEPT !.state = "Stopping", !.on_stop = on_finish]
    ELSE w

\* restart(): the replayer stops and starts over; until it runs again it is
\* neither stopped nor running
ImageReplayer_restart(w) ==
  IF is_running(w) \/ is_stopped(w) THEN [w EXCEPT !.state = "Starting"] ELSE w

\* ------------------------------------------------------------ small helpers
Ids(image_ids) == {r.id : r \in image_ids}

ById(image_ids, i) == CHOOSE r \in image_ids : r.id = i

\* the (pool, image) keys of a pool -> image -> replayer map
Keys(images) ==
  UNION {{<<p, i>> : i \in DOMAIN images[p]} : p \in DOMAIN images}

RECURSIVE SumWaits(_, _)
SumWaits(ws, S) ==
  IF S = {} THEN 0
  ELSE LET i == CHOOSE x \in S : TRUE
       IN ws[i].waits + SumWaits(ws, S \ {i})

TotalWaits(images) ==
  SumWaits([p \in DOMAIN images |->
              [waits |-> SumWaits(images[p], DOMAIN images[p])]], DOMAIN images)

\* --------------------------------------------------- Replayer: worker steps
\* a variant that reports every replayer as erasable
stop_image_replayer_erase_any(w) ==
  [erase |-> TRUE, w |-> w, stopped |-> FALSE]

\* Replayer::stop_image_replayer: erase says the caller may erase the replayer
stop_image_replayer(w) ==
  IF is_stopped(w) THEN [erase |-> TRUE, w |-> w, stopped |-> FALSE]
  ELSE IF is_running(w)
    THEN [erase |-> FALSE, w |-> ImageReplayer_stop(w, "hook"), stopped |-> TRUE]
    ELSE [erase |-> FALSE, w |-> w, stopped |-> FALSE]

\* Replayer::start_image_replayer: wait says a continuation was handed to
\* ImageDeleter::wait_for_scheduled_deletion
start_image_replayer(w, image_name) ==
  IF ~is_stopped(w) THEN [w |-> w, wait |-> FALSE]
  ELSE IF image_name.has
    THEN [w |-> [w EXCEPT !.waits = @ + 1], wait |-> TRUE]
    ELSE [w |-> w, wait |-> FALSE]

\* ------------------------------------------------ Replayer: status watches
\* a variant that reports success although the watch was not registered
mirror_image_status_init_swallow(watchers, pool_id, r) ==
  [assert_ok |-> pool_id \notin watchers,
   r |-> 0,
   watchers |-> IF r < 0 THEN watchers ELSE watchers \cup {pool_id}]

\* Replayer::mirror_image_status_init; r is what the remove-down operation and
\* register_watch returned (the first negative one)
mirror_image_status_init(watchers, pool_id, r) ==
  [assert_ok |-> pool_id \notin watchers,
   r |-> r,
   watchers |-> IF r < 0 THEN watchers ELSE watchers \cup {pool_id}]

\* a variant that leaves the watcher in m_status_watchers
mirror_image_status_shut_down_keep(watchers, pool_id) ==
  [assert_ok |-> pool_id \in watchers, watchers |-> watchers]

\* Replayer::mirror_image_status_shut_down
mirror_image_status_shut_down(watchers, pool_id) ==
  [assert_ok |-> pool_id \in watchers,
   watchers |-> watchers \ {pool_id}]

\* ------------------------------------------------------ Replayer::set_sources
\* what the environment answers for a pool of the target in one call:
\* ioctx_create2 / ioctx_create failed, a mirror_uuid_get failed, the status
\* watch could not be opened, or everything worked
PoolOutcomes == {"ok", "ioctx_fail", "uuid_fail", "watch_fail"}

\* first loop over m_init_images: erase what the remote advertises
BootstrapSurvivors(init_images, pool_image_ids) ==
  [k \in DOMAIN init_images |->
     {img \in init_images[k] :
        ~(k \in DOMAIN pool_image_ids
          /\ \E r \in pool_image_ids[k] : r.global_id = img.global_id)}]

\* second loop over m_init_images: the schedule_image_delete calls, as a bag
BootstrapDeletes(init_images, pool_image_ids) ==
  LET left == BootstrapSurvivors(init_images, pool_image_ids)
      pairs == UNION {{<<k, img>> : img \in left[k]} : k \in DOMAIN left}
      Call(img) == <<img.pool_id, img.id, img.name, img.global_id>>
  IN [c \in {Call(pr[2]) : pr \in pairs} |->
        Cardinality({pr \in pairs : Call(pr[2]) = c})]

\* one iteration of the loop over m_images
StopPool(pool_id, pool_workers, pool_image_ids) ==
  LET absent == pool_id \notin DOMAIN pool_image_ids
      victims == IF absent THEN DOMAIN pool_workers
                 ELSE {i \in DOMAIN pool_workers : i \notin Ids(pool_image_ids[pool_id])}
      r == [i \in DOMAIN pool_workers |->
              IF i \in victims THEN stop_image_replayer(pool_workers[i])
              ELSE [erase |-> FALSE, w |-> pool_workers[i], stopped |-> FALSE]]
      keep == {i \in DOMAIN pool_workers : ~r[i].erase}
  IN [ws |-> [i \in keep |-> r[i].w],
      erased |-> DOMAIN pool_workers \ keep,
      stopped |-> {i \in DOMAIN pool_workers : r[i].stopped},
      shut_down |-> absent /\ keep = {},
      orphaned |-> SumWaits(pool_workers, DOMAIN pool_workers \ keep)]

RECURSIVE ShutDownPools(_, _)
ShutDownPools(watchers, S) ==
  IF S = {} THEN [assert_ok |-> TRUE, watchers |-> watchers]
  ELSE LET p == CHOOSE x \in S : \A y \in S : x <= y
           one == mirror_image_status_shut_down(watchers, p)
           rest == ShutDownPools(one.watchers, S \ {p})
       IN [assert_ok |-> one.assert_ok /\ rest.assert_ok,
           watchers |-> rest.watchers]

\* one iteration of the loop over pool_image_ids; pool_replayers is
\* m_images[pool_id] (created empty by operator[] when missing)
InstallPool(pool_id, pool_replayers, watchers, image_ids, outcome) ==
  IF outcome \in {"ioctx_fail", "uuid_fail"}
    THEN [entry |-> FALSE, ws |-> pool_replayers, assert_ok |-> TRUE, inited |-> FALSE,
          watchers |-> watchers, waited |-> {}, created |-> {}]
  ELSE
    LET need == DOMAIN pool_replayers = {}
        init == mirror_image_status_init(
                  watchers, pool_id, IF outcome = "watch_fail" THEN -1 ELSE 0)
        r == [i \in Ids(image_ids) |->
                start_image_replayer(
                  IF i \in DOMAIN pool_replayers THEN pool_replayers[i]
                  ELSE ImageReplayer_new,
                  ById(image_ids, i).name)]
    IN IF need /\ init.r < 0
         THEN [entry |-> TRUE, ws |-> pool_replayers, assert_ok |-> init.assert_ok,
               inited |-> TRUE,
               watchers |-> init.watchers, waited |-> {}, created |-> {}]
         ELSE [entry |-> TRUE,
               ws |-> [i \in DOMAIN pool_replayers \cup Ids(image_ids) |->
                         IF i \in Ids(image_ids) THEN r[i].w ELSE pool_replayers[i]],
               assert_ok |-> ~need \/ init.assert_ok,
               inited |-> need,
               watchers |-> IF need THEN init.watchers ELSE watchers,
               waited |-> {i \in Ids(image_ids) : r[i].wait},
               created |-> Ids(image_ids) \ DOMAIN pool_replayers]

\* a variant without the clear()
ClearInitImages_skipped(init_images) == init_images

\* m_init_images.clear()
ClearInitImages(init_images) == EmptyMap

\* the whole of set_sources: the new m_images, m_status_watchers and
\* m_init_images, the calls made (on replayers <<pool, image, op>>, on status
\* watches <<pool, 0, op>>), whether an assert failed (shut_down_ok: the one
\* of mirror_image_status_shut_down, init_ok: the one of
\* mirror_image_status_init) and whether m_image_deleter was dereferenced
set_sources(pool_image_ids, outcome, images, watchers, init_images) ==
  LET boot == IF DOMAIN init_images # {}
                THEN BootstrapDeletes(init_images, pool_image_ids) ELSE EmptyMap
      Gone(stop) == {p \in DOMAIN images : stop[p].shut_down}
      Images2(stop) == [p \in DOMAIN images \ Gone(stop) |-> stop[p].ws]
      \* the loop over pool_image_ids, after the loop over m_images gave stop
      Install(stop) ==
        LET images2 == Images2(stop)
            shut == ShutDownPools(watchers, Gone(stop))
        IN [p \in DOMAIN pool_image_ids |->
              InstallPool(p, IF p \in DOMAIN images2 THEN images2[p] ELSE EmptyMap,
                          shut.watchers, pool_image_ids[p], outcome[p])]
      Result(stop, inst) ==
        LET gone == Gone(stop)
            images2 == Images2(stop)
            shut == ShutDownPools(watchers, gone)
            entered == {p \in DOMAIN pool_image_ids : inst[p].entry}
        IN [images |-> [p \in DOMAIN images2 \cup entered |->
                          IF p \in entered THEN inst[p].ws ELSE images2[p]],
            watchers |-> (shut.watchers \ entered)
                           \cup UNION {inst[p].watchers \cap {p} : p \in entered},
            init_images |-> IF DOMAIN init_images # {}
                              THEN ClearInitImages(init_images) ELSE init_images,
            scheduled |-> boot,
            waited |-> UNION {{<<p, i>> : i \in inst[p].waited} : p \in entered},
            calls |-> UNION {{<<p, i, "stop">> : i \in stop[p].stopped} : p \in DOMAIN images}
                        \cup {<<p, 0, "status_shut_down">> : p \in gone}
                        \cup {<<p, 0, "status_init">> : p \in {q \in entered : inst[q].inited}},
            orphaned |-> TotalWaits(images)
                           - TotalWaits([p \in DOMAIN images |-> stop[p].ws]),
            assert_ok |-> shut.assert_ok /\ \A p \in entered : inst[p].assert_ok,
            shut_down_ok |-> shut.assert_ok,
            init_ok |-> \A p \in entered : inst[p].assert_ok,
            deleter_used |-> DOMAIN boot # {}
                               \/ \E p \in entered : inst[p].waited # {}]
  IN CHOOSE res \in
       UNION {{Result(stop, inst) : inst \in {Install(stop)}} :
                stop \in {[p \in DOMAIN images |->
                             StopPool(p, images[p], pool_image_ids)]}} : TRUE

\* --------------------------------------- Replayer::init_local_mirroring_images
\* what the remote lookup by pool name gives for one local pool: "skip" stands
\* for every branch that continues with the next pool
LookupResults ==
  {[r |-> "skip", id |-> 0], [r |-> "enoent", id |-> 0]}
    \cup {[r |-> "ok", id |-> p] : p \in Pools}

\* pool names are unique in a cluster: two local pools never find one remote id
Lookups ==
  {f \in [1..Len(LocalPools) -> LookupResults] :
     \A j, k \in 1..Len(LocalPools) :
       (j # k /\ f[j].r = "ok" /\ f[k].r = "ok") => f[j].id # f[k].id}

\* std::set<InitImageInfo> is ordered by global_id: of two entries with one
\* global_id the first inserted (lowest image id) stays
InitImageInfos(lp) ==
  {[global_id |-> m.global_id, pool_id |-> lp.id, id |-> m.image_id, name |-> m.name] :
     m \in {m \in lp.mirror_images :
              \A o \in lp.mirror_images :
                o.global_id = m.global_id => m.image_id <= o.image_id}}

\* the key m_init_images gets for a local pool: the remote pool id, or the
\* local pool id when the remote pool does not exist
InitPoolKey(lp, found) == IF found.r = "enoent" THEN lp.id ELSE found.id

\* the mirrored images the scan reads from the local pools it does not skip
Found(lookup) ==
  UNION {InitImageInfos(LocalPools[k]) :
           k \in {j \in 1..Len(LocalPools) : lookup[j].r # "skip"}}

\* of these, the images of the pools the remote lookup did not find (-ENOENT):
\* the ones that get the local pool id as key
Orphans(lookup) ==
  UNION {InitImageInfos(LocalPools[k]) :
           k \in {j \in 1..Len(LocalPools) : lookup[j].r = "enoent"}}

RECURSIVE init_local_mirroring_images(_, _, _)
init_local_mirroring_images(k, lookup, init_images) ==
  IF k > Len(LocalPools) THEN init_images
  ELSE LET lp == LocalPools[k]
           key == InitPoolKey(lp, lookup[k])
           images == InitImageInfos(lp)
           next == IF lookup[k].r = "skip" \/ images = {} THEN init_images
                   ELSE [q \in DOMAIN init_images \cup {key} |->
                           IF q = key THEN images ELSE init_images[q]]
       IN init_local_mirroring_images(k + 1, lookup, next)

\* ---------------------------------------------------------------- actions
NoCalls ==
  [op |-> "none", calls |-> {}, scheduled |-> EmptyMap, waited |-> {}, found |-> {},
   orphans |-> {}]

Did(op) == [NoCalls EXCEPT !.op = op]

Init ==
  /\ m_stopping = FALSE
  /\ m_manual_stop = FALSE
  /\ m_images = EmptyMap
  /\ m_status_watchers = {}
  /\ m_init_images = EmptyMap
  /\ m_image_deleter = TRUE
  /\ m_asok_hook = TRUE
  /\ pool_images = EmptyMap
  /\ pc = "not_started"
  /\ dpc = "constructed"
  /\ dangling = 0
  /\ aborted = FALSE
  /\ last = NoCalls
  /\ budget = [refresh |-> MaxRefresh]

Abort ==
  /\ aborted' = TRUE
  /\ last' = Did("abort")
  /\ UNCHANGED << m_stopping, m_manual_stop, m_images, m_status_watchers,
                  m_init_images, m_image_deleter, m_asok_hook, pool_images,
                  pc, dpc, dangling, budget >>

\* Replayer::init: an early return leaves the thread unstarted; otherwise the
\* bootstrap scan, the first refresh_images and the thread creation
init ==
  /\ ~aborted
  /\ dpc = "constructed"
  /\ dpc' = "initialized"
  /\ \E ok \in BOOLEAN :
       IF ok
         THEN \E lookup \in Lookups, t \in Targets :
                /\ m_init_images' = init_local_mirroring_images(1, lookup, m_init_images)
                /\ pool_images' = t
                /\ pc' = "check"
                /\ last' = [NoCalls EXCEPT !.op = "init", !.found = Found(lookup),
                                            !.orphans = Orphans(lookup)]
         ELSE /\ last' = NoCalls
              /\ UNCHANGED << m_init_images, pool_images, pc >>
  /\ UNCHANGED << m_stopping, m_manual_stop, m_images, m_status_watchers,
                  m_image_deleter, m_asok_hook, dangling, aborted, budget >>

\* PoolWatcher publishes a new target
refresh_images ==
  /\ ~aborted
  /\ pc \in {"check", "tick"}
  /\ budget.refresh > 0
  /\ \E t \in Targets \ {pool_images} : pool_images' = t
  /\ budget' = [budget EXCEPT !.refresh = @ - 1]
  /\ last' = NoCalls
  /\ UNCHANGED << m_stopping, m_manual_stop, m_images, m_status_watchers,
                  m_init_images, m_image_deleter, m_asok_hook,
                  pc, dpc, dangling, aborted >>

\* a set_sources call made by the replayer thread.  crash decides what a call
\* through the released m_image_deleter does: the process dies, or the call
\* returns without effect
SetSourcesStep(pool_image_ids, outcome, next_pc) ==
  \E res \in {set_sources(pool_image_ids, outcome, m_images, m_status_watchers,
                          m_init_images)} :
  LET null == res.deleter_used /\ ~m_image_deleter
  IN /\ TotalWaits(res.images) + dangling + res.orphaned <= MaxPending
     /\ \E crash \in IF null THEN BOOLEAN ELSE {FALSE} :
          IF crash \/ ~res.assert_ok
            THEN Abort
            ELSE /\ m_images' = res.images
                 /\ m_status_watchers' = res.watchers
                 /\ m_init_images' = res.init_images
                 /\ dangling' = dangling + res.orphaned
                 /\ last' = [NoCalls EXCEPT
                               !.op = "set_sources",
                               !.calls = res.calls,
                               !.scheduled = IF null THEN EmptyMap ELSE res.scheduled,
                               !.waited = IF null THEN {} ELSE res.waited]
                 /\ pc' = IF next_pc = "drain" /\ DOMAIN res.images = {}
                            THEN "done" ELSE next_pc
                 /\ UNCHANGED << m_stopping, m_manual_stop, m_image_deleter,
                                 m_asok_hook, pool_images, dpc, aborted, budget >>

\* Replayer::run: the test of the first while loop finds m_stopping set; the
\* thread leaves the loop and does m_image_deleter.reset()
run_while ==
  /\ ~aborted
  /\ pc = "check"
  /\ m_stopping
  /\ pc' = "drain"
  /\ m_image_deleter' = FALSE
  /\ last' = NoCalls
  /\ UNCHANGED << m_stopping, m_manual_stop, m_images, m_status_watchers,
                  m_init_images, m_asok_hook, pool_images,
                  dpc, dangling, aborted, budget >>

\* a variant that ignores m_manual_stop
run_reconciles_always(manual_stop) == TRUE

\* whether the body of the first loop reconciles: if (!m_manual_stop)
run_reconciles(manual_stop) == ~manual_stop

\* Replayer::run: one iteration of the first while loop, from the test (which
\* finds m_stopping clear) through the body under m_lock to the return of
\* WaitInterval.  The test reads m_stopping without m_lock; only the
\* destructor writes it, so the test and the body are one step unless the
\* destructor's write falls between them: then the thread is at "tick", past
\* the test, and the body alone is the step.
run_tick_with(outcomes) ==
  /\ ~aborted
  /\ (pc = "check" /\ ~m_stopping) \/ pc = "tick"
  /\ IF run_reconciles(m_manual_stop)
       THEN \E outcome \in outcomes :
              SetSourcesStep(pool_images, outcome, "check")
       ELSE /\ pc' = "check"
            /\ last' = Did("skip")
            /\ UNCHANGED << m_stopping, m_manual_stop, m_images, m_status_watchers,
                            m_init_images, m_image_deleter, m_asok_hook,
                            pool_images, dpc, dangling, aborted, budget >>

run_tick == run_tick_with([DOMAIN pool_images -> PoolOutcomes])

\* a tick in which every pool operation succeeds
run_tick_ok == run_tick_with({[p \in DOMAIN pool_images |-> "ok"]})

\* Replayer::run: one iteration of the second loop
run_drain ==
  /\ ~aborted
  /\ pc = "drain"
  /\ SetSourcesStep(EmptyMap, EmptyMap, "drain")

\* ---------------------------------------------------- admin socket commands
AdminCommands == {"status", "start", "stop", "restart", "flush"}

\* a variant that reaches no replayer
CallsOnAll_none(images, op) == {}

CallsOnAll(images, op) == {<<k[1], k[2], op>> : k \in Keys(images)}

\* ReplayerAdminSocketHook::call and the part common to the five handlers:
\* the admin socket delivers command c through the registered hook and the
\* handler runs under m_lock.  The hook's destructor unregisters the commands
\* and returns when no call is running, so no handler runs after it.  A
\* command that comes before init() finds m_images empty and does what the
\* same command does right after init().
Handler(c) ==
  /\ ~aborted
  /\ dpc = "initialized"
  /\ c \in AdminCommands
  /\ m_asok_hook
  /\ UNCHANGED << budget, m_stopping, m_status_watchers, m_init_images, m_image_deleter,
                  m_asok_hook, pool_images, pc, dpc, dangling, aborted >>

\* Replayer::print_status
print_status ==
  /\ Handler("status")
  /\ last' = [NoCalls EXCEPT !.calls = CallsOnAll(m_images, "print_status")]
  /\ UNCHANGED << m_manual_stop, m_images >>

\* Replayer::start
start ==
  /\ Handler("start")
  /\ IF m_stopping
       THEN /\ last' = NoCalls
            /\ UNCHANGED << m_manual_stop, m_images >>
       ELSE /\ m_manual_stop' = FALSE
            /\ m_images' = [p \in DOMAIN m_images |->
                             [i \in DOMAIN m_images[p] |->
                                ImageReplayer_start(m_images[p][i])]]
            /\ last' = [NoCalls EXCEPT !.calls = CallsOnAll(m_images, "start")]

\* Replayer::stop
stop ==
  /\ Handler("stop")
  /\ IF m_stopping
       THEN /\ last' = NoCalls
            /\ UNCHANGED << m_manual_stop, m_images >>
       ELSE /\ m_manual_stop' = TRUE
            /\ m_images' = [p \in DOMAIN m_images |->
                             [i \in DOMAIN m_images[p] |->
                                ImageReplayer_stop(m_images[p][i], "none")]]
            /\ last' = [NoCalls EXCEPT !.calls = CallsOnAll(m_images, "stop")]

\* Replayer::restart
restart ==
  /\ Handler("restart")
  /\ IF m_stopping
       THEN /\ last' = NoCalls
            /\ UNCHANGED << m_manual_stop, m_images >>
       ELSE /\ m_manual_stop' = FALSE
            /\ m_images' = [p \in DOMAIN m_images |->
                             [i \in DOMAIN m_images[p] |->
                                ImageReplayer_restart(m_images[p][i])]]
            /\ last' = [NoCalls EXCEPT !.calls = CallsOnAll(m_images, "restart")]

\* Replayer::flush
flush ==
  /\ Handler("flush")
  /\ last' = IF m_stopping \/ m_manual_stop THEN NoCalls
             ELSE [NoCalls EXCEPT !.calls = CallsOnAll(m_images, "flush")]
  /\ UNCHANGED << m_manual_stop, m_images >>

\* ------------------------------------------------- completions of replayers
SetReplayer(k, w) == [m_images EXCEPT ![k[1]][k[2]] = w]

\* an ImageReplayer leaves Starting: it runs, or the start failed
start_done ==
  /\ ~aborted
  /\ \E k \in Keys(m_images), ok \in BOOLEAN :
       LET w == m_images[k[1]][k[2]]
       IN /\ w.state = "Starting"
          /\ m_images' = SetReplayer(k, [w EXCEPT !.state = IF ok THEN "Running"
                                                             ELSE "Stopped"])
  /\ last' = NoCalls
  /\ UNCHANGED << m_stopping, m_manual_stop, m_status_watchers, m_init_images,
                  m_image_deleter, m_asok_hook, pool_images,
                  pc, dpc, dangling, aborted, budget >>

\* the FunctionContext stop_image_replayer hands to ImageReplayer::stop: the
\* schedule_image_delete calls it makes, as a bag
stop_hook(deleter, k) ==
  IF deleter
    THEN LET c == <<k[1], k[2], "", ById(RemoteImages(k[1]), k[2]).global_id>>
         IN [x \in {c} |-> 1]
    ELSE EmptyMap

\* an ImageReplayer leaves Stopping and completes the context of the stop
stop_done ==
  /\ ~aborted
  /\ \E k \in Keys(m_images) :
       LET w == m_images[k[1]][k[2]]
           stopped == [w EXCEPT !.state = "Stopped", !.on_stop = "none"]
       IN /\ w.state = "Stopping"
          /\ m_images' = SetReplayer(k, stopped)
          /\ last' = [NoCalls EXCEPT
                        !.scheduled = IF w.on_stop = "hook"
                                        THEN stop_hook(m_image_deleter, k)
                                        ELSE EmptyMap]
  /\ UNCHANGED << m_stopping, m_manual_stop, m_status_watchers, m_init_images,
                  m_image_deleter, m_asok_hook, pool_images,
                  pc, dpc, dangling, aborted, budget >>

\* the FunctionContext of start_image_replayer, r >= 0: image_replayer->start()
wait_start(w) ==
  [ImageReplayer_start(w) EXCEPT !.gated = w.waits > 0]

\* ImageDeleter completes a wait_for_scheduled_deletion continuation with r.
\* The continuation holds image_name by reference into the pool watcher's
\* image set: once that element is gone the retry reads freed memory (read
\* says what it finds).  A retry through the released m_image_deleter is a
\* call through a null pointer.
wait_done_with(results) ==
  /\ ~aborted
  /\ \E k \in Keys(m_images), r \in results :
       LET w == m_images[k[1]][k[2]]
           w1 == [w EXCEPT !.waits = @ - 1, !.gated = @ /\ w.waits > 1]
           image_id == ById(RemoteImages(k[1]), k[2])
           alive == k[1] \in DOMAIN pool_images /\ image_id \in pool_images[k[1]]
       IN /\ w.waits > 0
          /\ IF r >= 0
               THEN /\ m_images' = SetReplayer(k, wait_start(w1))
                    /\ last' = [NoCalls EXCEPT !.calls = {<<k[1], k[2], "start">>}]
                    /\ UNCHANGED << aborted >>
               ELSE \E read \in IF alive THEN {"name"} ELSE {"name", "none", "crash"} :
                      LET again == start_image_replayer(
                                     w1, IF read = "none" THEN None ELSE image_id.name)
                          null == again.wait /\ ~m_image_deleter
                      IN \E crash \in IF null THEN BOOLEAN ELSE {FALSE} :
                           IF read = "crash" \/ crash
                             THEN /\ aborted' = TRUE
                                  /\ last' = Did("abort")
                                  /\ UNCHANGED << m_images >>
                             ELSE /\ m_images' = SetReplayer(k, IF null THEN w1 ELSE again.w)
                                  /\ last' = [NoCalls EXCEPT
                                                !.waited = IF again.wait /\ ~null
                                                             THEN {k} ELSE {}]
                                  /\ UNCHANGED << aborted >>
  /\ UNCHANGED << m_stopping, m_manual_stop, m_status_watchers, m_init_images,
                  m_image_deleter, m_asok_hook, pool_images,
                  pc, dpc, dangling, budget >>

wait_done == wait_done_with({0, -1})

\* the ImageDeleter reports that no deletion is scheduled (any more)
wait_done_ok == wait_done_with({0})

\* a wait_for_scheduled_deletion continuation completes after set_sources
\* erased the replayer its image_replayer reference points at: the use of the
\* freed map node kills the process, goes unnoticed, or reaches the replayer
\* that took the node over
dangling_done ==
  /\ ~aborted
  /\ dangling > 0
  /\ \E kind \in {"crash", "none", "alias"}, k \in Keys(m_images) \cup {<<0, 0>>} :
       /\ (kind = "alias") = (k \in Keys(m_images))
       /\ IF kind = "crash"
            THEN Abort
            ELSE /\ dangling' = dangling - 1
                 /\ m_images' = IF kind = "alias"
                                  THEN SetReplayer(k, ImageReplayer_start(m_images[k[1]][k[2]]))
                                  ELSE m_images
                 /\ last' = [NoCalls EXCEPT
                               !.calls = IF kind = "alias" THEN {<<k[1], k[2], "start">>}
                                         ELSE {}]
                 /\ UNCHANGED << m_stopping, m_manual_stop, m_status_watchers,
                                 m_init_images, m_image_deleter, m_asok_hook,
                                 pool_images, pc, dpc, aborted, budget >>

\* ------------------------------------------------------- Replayer::~Replayer
\* delete m_asok_hook
dtor_delete_hook ==
  /\ ~aborted
  /\ dpc \in {"constructed", "initialized"}
  /\ m_asok_hook' = FALSE
  /\ dpc' = "hook_deleted"
  /\ last' = NoCalls
  /\ UNCHANGED << m_stopping, m_manual_stop, m_images, m_status_watchers,
                  m_init_images, m_image_deleter, pool_images,
                  pc, dangling, aborted, budget >>

\* m_stopping.set(1) and m_cond.Signal().  The write is not under m_lock: the
\* replayer thread may have tested m_stopping just before it (past_test)
dtor_set_stopping ==
  /\ ~aborted
  /\ dpc = "hook_deleted"
  /\ m_stopping' = TRUE
  /\ dpc' = "signalled"
  /\ \E past_test \in IF pc = "check" THEN BOOLEAN ELSE {FALSE} :
       pc' = IF past_test THEN "tick" ELSE pc
  /\ last' = NoCalls
  /\ UNCHANGED << m_manual_stop, m_images, m_status_watchers,
                  m_init_images, m_image_deleter, m_asok_hook, pool_images,
                  dangling, aborted, budget >>

\* m_replayer_thread.join(), when the thread was started
dtor_join ==
  /\ ~aborted
  /\ dpc = "signalled"
  /\ pc \in {"not_started", "done"}
  /\ dpc' = "destroyed"
  /\ last' = NoCalls
  /\ UNCHANGED << m_stopping, m_manual_stop, m_images, m_status_watchers,
                  m_init_images, m_image_deleter, m_asok_hook, pool_images,
                  pc, dangling, aborted, budget >>

\* ------------------------------------------------------------ specification
Next ==
  \/ init
  \/ refresh_images
  \/ run_while
  \/ run_tick
  \/ run_drain
  \/ print_status
  \/ start
  \/ stop
  \/ restart
  \/ flush
  \/ start_done
  \/ stop_done
  \/ wait_done
  \/ dangling_done
  \/ dtor_delete_hook
  \/ dtor_set_stopping
  \/ dtor_join

Spec == Init /\ [][Next]_vars

\* the replayer thread and the replayers make progress: a thread that can run
\* does (the timed waits of run() end), a Starting replayer comes to run or
\* stop, a Stopping replayer comes to stop
LiveSpec ==
  /\ Init /\ [][Next]_vars
  /\ WF_vars(run_while) /\ WF_vars(run_tick) /\ WF_vars(run_drain)
  /\ WF_vars(start_done) /\ WF_vars(stop_done)

\* the same, with pool operations that succeed and an ImageDeleter that lets
\* the waiting replayers go: a tick whose pool operations all succeed comes,
\* and a pending deletion wait comes to complete with r >= 0
ChurnSpec ==
  /\ Init /\ [][Next]_vars
  /\ WF_vars(run_tick_ok) /\ WF_vars(wait_done_ok)

\* ------------------------------------------- the admin handlers on their own
\* Replayer::print_status, start, stop, restart and flush are public members:
\* what they do is a function of the fields they read under m_lock
\* (m_stopping, m_manual_stop, m_images).  AdminSpec draws those fields from
\* every combination of values and applies the handlers to them.
AdminWorkers ==
  {[ImageReplayer_new EXCEPT !.state = st] :
     st \in {"Stopped", "Starting", "Running", "Stopping"}}

AdminImages ==
  {EmptyMap} \cup
    UNION {{[p \in {1} |-> ws] : ws \in [ids -> AdminWorkers]} :
             ids \in {{1}, {2}, {1, 2}}}

AdminInit ==
  /\ m_stopping \in BOOLEAN
  /\ m_manual_stop \in BOOLEAN
  /\ m_images \in AdminImages
  /\ m_status_watchers = DOMAIN m_images
  /\ m_init_images = EmptyMap
  /\ m_image_deleter = TRUE
  /\ m_asok_hook = TRUE
  /\ pool_images = EmptyMap
  /\ pc = "check"
  /\ dpc = "initialized"
  /\ dangling = 0
  /\ aborted = FALSE
  /\ last = NoCalls
  /\ budget = [refresh |-> MaxRefresh]

AdminNext ==
  \/ print_status
  \/ start
  \/ stop
  \/ restart
  \/ flush

AdminSpec == AdminInit /\ [][AdminNext]_vars


\* ------------------------------------------------------------------ claims
Worker(k) == m_images[k[1]][k[2]]

\* pool id -> the image ids that have a replayer
Membership(images) == [p \in DOMAIN images |-> DOMAIN images[p]]

InTarget(k) ==
  k[1] \in DOMAIN pool_images /\ k[2] \in Ids(pool_images[k[1]])

\* the target the replayer thread hands to its next set_sources call
NextSources == IF pc = "drain" THEN EmptyMap ELSE pool_images

\* the replayer thread is about to call set_sources(NextSources)
CallDue ==
  /\ ~aborted
  /\ \/ pc = "check" /\ ~m_stopping /\ run_reconciles(m_manual_stop)
     \/ pc = "tick" /\ run_reconciles(m_manual_stop)
     \/ pc = "drain"

\* what the pool operations of that call may answer
NextOutcomes == [DOMAIN NextSources -> PoolOutcomes]

\* C1: between set_sources calls, a pool has a status watcher exactly when
\* m_images has an entry for it with at least one replayer, and no entry of
\* m_images is empty.
C1_WatchIffWorkers ==
  /\ \A p \in Pools :
       (p \in m_status_watchers) <=> (p \in DOMAIN m_images /\ DOMAIN m_images[p] # {})
  /\ \A p \in DOMAIN m_images : DOMAIN m_images[p] # {}

\* C2: a replayer leaves m_images only in a step that found it Stopped; one
\* that is Starting, Running or Stopping stays.
C2_ErasedOnlyWhenStopped ==
  [][\A k \in Keys(m_images) \ Keys(m_images') : is_stopped(Worker(k))]_vars

\* a set_sources call has just kept a replayer that is outside the target and
\* was already Stopping when the call examined it
C2_Witness ==
  /\ last.op = "set_sources"
  /\ \E k \in Keys(m_images) :
       /\ Worker(k).state = "Stopping"
       /\ ~InTarget(k)
       /\ <<k[1], k[2], "stop">> \notin last.calls

\* C3: once m_stopping is set, no step adds a replayer to m_images.
C3_NoWorkerAfterStopping ==
  [][m_stopping => Keys(m_images') \subseteq Keys(m_images)]_vars

\* C4: every set_sources call leaves m_init_images empty; after init an empty
\* m_init_images stays empty, and a set_sources call that finds it empty
\* schedules no deletion.
C4_ResidueConsumedOnce ==
  [][/\ last'.op = "set_sources" => m_init_images' = EmptyMap
     /\ (dpc # "constructed" /\ m_init_images = EmptyMap) => m_init_images' = EmptyMap
     /\ (last'.op = "set_sources" /\ m_init_images = EmptyMap)
          => last'.scheduled = EmptyMap]_vars

\* the first set_sources call has consumed a residue and scheduled deletions
C4_Witness ==
  /\ last.op = "set_sources"
  /\ DOMAIN last.scheduled # {}
  /\ m_init_images = EmptyMap

\* the schedule_image_delete calls C5 asks of the first reconciliation, as a
\* bag: one per residue image without a target image of the same global id
\* under the same pool key
C5_Expected(residue, target) ==
  LET due == {pr \in UNION {{<<k, img>> : img \in residue[k]} : k \in DOMAIN residue} :
                ~(pr[1] \in DOMAIN target
                  /\ \E r \in target[pr[1]] : r.global_id = pr[2].global_id)}
  IN [c \in {<<pr[2].pool_id, pr[2].id, pr[2].name, pr[2].global_id>> : pr \in due} |-> 1]

\* C5: every mirrored image the bootstrap scan finds is in the residue, and the
\* set_sources call that consumes the residue makes exactly the
\* schedule_image_delete calls of C5_Expected.
C5_BootstrapDeletes ==
  [][/\ last'.op = "init" =>
          \A img \in last'.found :
            \E k \in DOMAIN m_init_images' : img \in m_init_images'[k]
     /\ (last'.op = "set_sources" /\ DOMAIN m_init_images # {}) =>
          last'.scheduled = C5_Expected(m_init_images, NextSources)]_vars

\* C6 as stated: while m_manual_stop stays set, the pools and images of
\* m_images do not change.
C6_ManualStopFreezes ==
  [][(m_manual_stop /\ m_manual_stop')
       => Membership(m_images') = Membership(m_images)]_vars

\* C6 amended: while m_manual_stop stays set and the replayer thread is in its
\* first loop (it has not left it for the drain), the pools and images of
\* m_images do not change.
C6_ManualStopFreezesFirstLoop ==
  [][(m_manual_stop /\ m_manual_stop' /\ pc # "drain")
       => Membership(m_images') = Membership(m_images)]_vars

\* a tick has just skipped set_sources although the target names an image
\* that has no replayer
C6_Witness ==
  /\ last.op = "skip"
  /\ m_manual_stop
  /\ \E p \in DOMAIN pool_images :
       \E i \in Ids(pool_images[p]) : <<p, i>> \notin Keys(m_images)

\* C7: once m_stopping is set with the replayer thread started, the thread
\* reaches the end of run().
C7_ShutdownTerminates ==
  (m_stopping /\ pc # "not_started") ~> (pc = "done")

\* C8: when run() has returned, m_images and m_status_watchers are empty.
C8_NothingLeftAfterRun ==
  pc = "done" => (m_images = EmptyMap /\ m_status_watchers = {})

\* run() has returned, and its last set_sources call closed a status watch
C8_Witness ==
  /\ pc = "done"
  /\ \E p \in Pools : <<p, 0, "status_shut_down">> \in last.calls

\* C9: no start() call reaches a replayer that is Stopping.
C9_NoStartWhileStopping ==
  [][\A c \in last'.calls :
       (c[3] = "start" /\ <<c[1], c[2]>> \in Keys(m_images))
         => Worker(<<c[1], c[2]>>).state # "Stopping"]_vars

\* C10: a deletion-wait continuation calls start() on a replayer only if no
\* continuation registered for the same replayer has called it already.
C10_StartOncePerGate ==
  [][\A k \in Keys(m_images) \cap Keys(m_images') :
       (/\ <<k[1], k[2], "start">> \in last'.calls
        /\ m_images'[k[1]][k[2]].waits < Worker(k).waits)
         => ~Worker(k).gated]_vars

\* C11: a set_sources call that follows a set_sources call with the same target
\* (every pool operation succeeding in both) creates no replayer, erases none
\* and opens or closes no status watch: it leaves m_images and
\* m_status_watchers as the first call left them.
C11_SecondCallChangesNothing ==
  CallDue =>
    LET ok == [p \in DOMAIN NextSources |-> "ok"]
    IN \A first \in {set_sources(NextSources, ok, m_images, m_status_watchers,
                                 m_init_images)} :
         first.assert_ok =>
           \A second \in {set_sources(NextSources, ok, first.images,
                                      first.watchers, first.init_images)} :
             /\ second.assert_ok
             /\ Membership(second.images) = Membership(first.images)
             /\ second.watchers = first.watchers
             /\ \A c \in second.calls :
                  c[3] \notin {"status_init", "status_shut_down"}

C13_HookOutlivesThread ==
  [][/\ (m_asok_hook /\ ~m_asok_hook')
          => (m_stopping /\ pc \in {"not_started", "done"})
     /\ (~m_stopping /\ m_stopping') => m_asok_hook']_vars

\* the target of the churn scenario: pool 1 with the images A and B
C14_Target == [p \in {1} |-> RemoteImages(1)]

\* m_images is what the target {A} made it: pool 1 with the replayer of A
C14_OnlyA == Membership(m_images) = [p \in {1} |-> {1}]

\* the replayer of A exists, B is in the target and has no replayer, no
\* continuation of an erased replayer is pending, and neither m_manual_stop
\* nor m_stopping is set
C14_Due ==
  /\ ~aborted
  /\ pc \in {"check", "tick"}
  /\ pool_images = C14_Target
  /\ C14_OnlyA
  /\ dangling = 0
  /\ ~m_manual_stop
  /\ ~m_stopping

C15_StatusInitPrecondition ==
  CallDue =>
    \A outcome \in NextOutcomes :
      \A res \in {set_sources(NextSources, outcome, m_images, m_status_watchers,
                              m_init_images)} :
        res.shut_down_ok => res.init_ok

\* C16: whenever set_sources calls mirror_image_status_shut_down for a pool,
\* m_status_watchers has an entry for that pool: the assert holds.
C16_StatusShutDownPrecondition ==
  CallDue =>
    \A outcome \in NextOutcomes :
      set_sources(NextSources, outcome, m_images, m_status_watchers,
                  m_init_images).shut_down_ok

\* C17: in a set_sources call whose target has a pool without entry in
\* m_images, mirror_image_status_init is called for the pool (once the pool's
\* ioctx and uuid lookups succeeded) and replayers are created in the pool only
\* with the watch registered; when the watch cannot be opened the pool gets an
\* empty entry and no replayer, and a later call that finds this entry calls
\* mirror_image_status_init again.
C17_WatchOpenedBeforeReplayers ==
  CallDue =>
    \A outcome \in NextOutcomes :
      \A res \in {set_sources(NextSources, outcome, m_images, m_status_watchers,
                              m_init_images)} :
        res.assert_ok =>
          /\ \A p \in DOMAIN NextSources \ DOMAIN m_images :
               LET opened == <<p, 0, "status_init">> \in res.calls
               IN /\ opened = (outcome[p] \in {"ok", "watch_fail"})
                  /\ (p \in DOMAIN res.images /\ DOMAIN res.images[p] # {})
                       => (opened /\ p \in res.watchers)
                  /\ outcome[p] = "watch_fail"
                       => /\ p \in DOMAIN res.images
                          /\ DOMAIN res.images[p] = {}
                          /\ p \notin res.watchers
          /\ \A p \in DOMAIN NextSources \cap DOMAIN m_images :
               (/\ DOMAIN m_images[p] = {}
                /\ p \notin m_status_watchers
                /\ outcome[p] \in {"ok", "watch_fail"})
                 => <<p, 0, "status_init">> \in res.calls

\* a set_sources call has just failed to open the watch of a pool that had no
\* entry: the entry is there, empty and without watch, and the target still has
\* images for the pool
C17_Witness ==
  /\ last.op = "set_sources"
  /\ CallDue
  /\ \E p \in DOMAIN pool_images :
       /\ pool_images[p] # {}
       /\ <<p, 0, "status_init">> \in last.calls
       /\ p \in DOMAIN m_images
       /\ DOMAIN m_images[p] = {}
       /\ p \notin m_status_watchers

\* C18: a set_sources call that fails to open the remote ioctx of a pool of the
\* target leaves the pool as it was: the same replayers in the same states, no
\* call on any of them, none created, and the status watch as before.
C18_IoctxFailureLeavesPool ==
  CallDue =>
    \A outcome \in NextOutcomes :
      \A res \in {set_sources(NextSources, outcome, m_images, m_status_watchers,
                              m_init_images)} :
        \A p \in DOMAIN NextSources :
          (res.assert_ok /\ outcome[p] = "ioctx_fail") =>
            /\ (p \in DOMAIN res.images) = (p \in DOMAIN m_images)
            /\ p \in DOMAIN m_images => res.images[p] = m_images[p]
            /\ (p \in res.watchers) = (p \in m_status_watchers)
            /\ \A c \in res.calls : c[1] # p
            /\ \A k \in res.waited : k[1] # p

\* C19: start_image_replayer without an image name starts a Stopped replayer
\* at once and registers no deletion wait; on a replayer that is not Stopped it
\* does nothing, with or without a name.
C19_StartWithoutName ==
  \A k \in Keys(m_images) :
    IF is_stopped(Worker(k))
      THEN start_image_replayer(Worker(k), None)
             = [w |-> ImageReplayer_start(Worker(k)), wait |-> FALSE]
      ELSE \A image_name \in {None, Some("na")} :
             start_image_replayer(Worker(k), image_name)
               = [w |-> Worker(k), wait |-> FALSE]

\* C20: the images init_local_mirroring_images puts under a local pool id
\* (remote lookup -ENOENT) stay in m_init_images beside the images of every
\* other local pool, and the first set_sources call schedules the deletion of
\* each of them whatever its target is.
C20_LocalOrphanSweep ==
  [][last'.op = "init" =>
       \A img \in last'.orphans :
         /\ img.pool_id \in DOMAIN m_init_images'
         /\ img \in m_init_images'[img.pool_id]
         /\ \A other \in last'.found :
              \E key \in DOMAIN m_init_images' : other \in m_init_images'[key]
         /\ \A target \in Targets :
              <<img.pool_id, img.id, img.name, img.global_id>>
                \in DOMAIN BootstrapDeletes(m_init_images', target)]_vars

\* C21: no operation is called on the ImageDeleter once run() has released
\* m_image_deleter: a set_sources call that schedules bootstrap deletions or
\* registers a deletion wait is made with the pointer held, and so is the retry
\* of a pending deletion-wait continuation.
C21_NoDeleterUseAfterRelease ==
  /\ CallDue =>
       \A outcome \in NextOutcomes :
         set_sources(NextSources, outcome, m_images, m_status_watchers,
                     m_init_images).deleter_used => m_image_deleter
  /\ ~aborted =>
       \A k \in Keys(m_images) :
         (/\ Worker(k).waits > 0
          /\ start_image_replayer([Worker(k) EXCEPT !.waits = @ - 1],
                                  ById(RemoteImages(k[1]), k[2]).name).wait)
           => m_image_deleter

\* C22: set_sources erases a replayer only when no continuation that refers to
\* it is pending: no deletion wait and no stop-completion hook.
C22_NoErasureUnderContinuation ==
  [][\A k \in Keys(m_images) \ Keys(m_images') :
       Worker(k).waits = 0 /\ Worker(k).on_stop = "none"]_vars

====
